---- MODULE Spec2Model ----
(***************************************************************************)
(* Routing-request gateway (app_rotas/views.py): the four endpoint         *)
(* handlers rota_carro, rota_caminhao, geocode_search, obstaculos_altura,  *)
(* the health probe, and the helpers they call.                            *)
(*                                                                         *)
(* A handler is one action: it reads the request, issues at most one       *)
(* outbound call, reads the upstream response and produces its outcome     *)
(* (a JSON reply, or an exception that escapes the view).                  *)
(*                                                                         *)
(* Conventions of the model                                                *)
(*  - a Python str is a sequence of lexemes (one character each, except    *)
(*    the unit words and BIG, a run of 400 nines);                         *)
(*  - a Python number is a decimal m * 10^-e (Fin), or NaN, or +/-Inf, or  *)
(*    Huge: an int beyond the range of a float. Decimal arithmetic is      *)
(*    exact here; the binary rounding of a float is not modelled;          *)
(*  - a JSON value is a record [t, n, s, l, o]: its type tag and, by type, *)
(*    its number, its str, its list items or its object (a function from   *)
(*    keys to values).                                                     *)
(***************************************************************************)
EXTENDS Integers, Sequences, FiniteSets, TLC

VARIABLES
    ORS_KEY,    \* views.py:9, the configured provider key ("" when unset)
    pc,         \* "idle" (no request in hand) or "done" (a request was handled)
    endpoint,   \* the view that handled the request
    request,    \* the inbound request [method, body]
    calls,      \* the outbound calls the handler issued, in order
    upstream,   \* what the external service answered to the call
    reply,      \* the handler's outcome
    arg,        \* argument of the helper applied
    result      \* its result

vars == <<ORS_KEY, pc, endpoint, request, calls, upstream, reply, arg, result>>

----------------------------------------------------------------------------
(* Bounds of the model. *)

MaxWaypoints == 2
MaxAvoids == 3
MaxElements == 3
MaxRawLen == 4

----------------------------------------------------------------------------
(* A local name: F applied to the value v, as an assignment `x = v` followed *)
(* by the statements F that read x.                                          *)

With(v, F(_)) == F(v)

----------------------------------------------------------------------------
(* Python numbers. *)

Fin(m, e) == [k |-> "fin", m |-> m, e |-> e]
NaN == [k |-> "nan", m |-> 0, e |-> 0]
Inf(sign) == [k |-> "inf", m |-> sign, e |-> 0]
Huge(sign) == [k |-> "huge", m |-> sign, e |-> 0]
PyNone == [k |-> "none", m |-> 0, e |-> 0]
Raised == [k |-> "raise", m |-> 0, e |-> 0]

RECURSIVE Pow10(_)
Pow10(n) == IF n = 0 THEN 1 ELSE 10 * Pow10(n - 1)

MaxOf(a, b) == IF a >= b THEN a ELSE b
MinOf(a, b) == IF a <= b THEN a ELSE b

\* a < b on floats (IEEE: every comparison with NaN is false)
FloatLt(a, b) ==
    CASE a.k = "nan" \/ b.k = "nan" -> FALSE
      [] a.k = "inf" /\ b.k = "inf" -> a.m < b.m
      [] a.k = "inf" -> a.m < 0
      [] b.k = "inf" -> b.m > 0
      [] OTHER -> a.m * Pow10(MaxOf(a.e, b.e) - a.e)
                  < b.m * Pow10(MaxOf(a.e, b.e) - b.e)

FloatEq(a, b) ==
    CASE a.k = "nan" \/ b.k = "nan" -> FALSE
      [] a.k = "inf" \/ b.k = "inf" -> a.k = b.k /\ a.m = b.m
      [] OTHER -> a.m * Pow10(MaxOf(a.e, b.e) - a.e)
                  = b.m * Pow10(MaxOf(a.e, b.e) - b.e)

FloatLe(a, b) == FloatLt(a, b) \/ FloatEq(a, b)

----------------------------------------------------------------------------
(* Python strings and the builtins the views use on them. *)

BIG == "9{400}"                      \* one lexeme: a run of 400 nines
DIGIT == {"1", "2", BIG}             \* what [0-9] and \d match
SPACE == {" "}                       \* what \s matches, what strip() removes
SEP == {".", ","}
METRE_UNIT == {"m", "meter", "metros"}
FEET_UNIT == {"ft", "foot", "feet"}

\* str.lower(), lexeme by lexeme
LowerLexeme(c) ==
    CASE c = "M" -> "m"
      [] c = "FT" -> "ft"
      [] OTHER -> c

lower(s) == [i \in 1..Len(s) |-> LowerLexeme(s[i])]

\* s[i], or a lexeme no class holds when i is outside s
At(s, i) == IF i >= 1 /\ i <= Len(s) THEN s[i] ELSE "<end>"

\* the first position >= i of s whose lexeme is not in S (Len(s)+1 if none)
RECURSIVE Skip(_, _, _)
Skip(s, i, S) == IF At(s, i) \in S THEN Skip(s, i + 1, S) ELSE i

\* the last position <= j of s whose lexeme is not in S (0 if none)
RECURSIVE SkipBack(_, _, _)
SkipBack(s, j, S) == IF At(s, j) \in S THEN SkipBack(s, j - 1, S) ELSE j

strip(s) == SubSeq(s, Skip(s, 1, SPACE), SkipBack(s, Len(s), SPACE))

\* str.replace(",", ".")
replace_comma(s) == [i \in 1..Len(s) |-> IF s[i] = "," THEN "." ELSE s[i]]

\* the value of a run of decimal digits without BIG
RECURSIVE DigitsValue(_)
DigitsValue(d) ==
    IF d = <<>> THEN 0
    ELSE 10 * DigitsValue(SubSeq(d, 1, Len(d) - 1))
         + (IF d[Len(d)] = "1" THEN 1 ELSE 2)

HasBig(d) == \E i \in 1..Len(d) : d[i] = BIG

\* int(d) for a non-empty run of digits d: the exact integer, Huge when it
\* has more digits than a float can hold
PyIntDigits(d) == IF HasBig(d) THEN Huge(1) ELSE Fin(DigitsValue(d), 0)

\* float of "<ip>.<fp>" (digit runs, either may be empty, not both): the
\* integer part overflows to inf; a run of 400 nines in the fraction rounds
\* the digits before it up by one unit in the last place
PyFloatDigits(ip, fp) ==
    IF HasBig(ip) THEN Inf(1)
    ELSE IF HasBig(fp)
         THEN With(Skip(fp, 1, {"1", "2"}) - 1, LAMBDA n :
                  Fin(DigitsValue(ip \o SubSeq(fp, 1, n)) + 1, n))
         ELSE Fin(DigitsValue(ip \o fp), Len(fp))

Negate(x) ==
    CASE x.k = "fin" -> Fin(0 - x.m, x.e)
      [] x.k = "inf" -> Inf(0 - x.m)
      [] x.k = "huge" -> Huge(0 - x.m)
      [] OTHER -> x

\* float(s) on a str: surrounding whitespace, an optional sign, then
\* digits, digits "." [digits] or "." digits. Raised stands for ValueError.
PyFloatStr(s0) ==
    With(strip(s0), LAMBDA s :
    With(IF At(s, 1) \in {"-", "+"} THEN 2 ELSE 1, LAMBDA i0 :
    With(Skip(s, i0, DIGIT), LAMBDA i1 :
    With(IF At(s, i1) = "." THEN i1 + 1 ELSE i1, LAMBDA i2 :
    With(Skip(s, i2, DIGIT), LAMBDA i3 :
        IF i3 = Len(s) + 1 /\ (i1 > i0 \/ i3 > i2)
        THEN With(PyFloatDigits(SubSeq(s, i0, i1 - 1), SubSeq(s, i2, i3 - 1)),
                  LAMBDA x : IF At(s, 1) = "-" THEN Negate(x) ELSE x)
        ELSE Raised)))))

\* float * float, the right operand a positive decimal constant c * 10^-ce
FloatTimes(x, c, ce) == IF x.k = "fin" THEN Fin(x.m * c, x.e + ce) ELSE x

----------------------------------------------------------------------------
(* JSON values as Python holds them after json.loads / r.json(). *)

NoObj == [x \in {} |-> 0]

JNull == [t |-> "null", n |-> PyNone, s |-> <<>>, l |-> <<>>, o |-> NoObj]
JNum(x) == [t |-> "num", n |-> x, s |-> <<>>, l |-> <<>>, o |-> NoObj]
JBool(b) ==
    [t |-> "bool", n |-> Fin(IF b THEN 1 ELSE 0, 0), s |-> <<>>, l |-> <<>>,
     o |-> NoObj]
JStr(str) == [t |-> "str", n |-> PyNone, s |-> str, l |-> <<>>, o |-> NoObj]
JList(lst) == [t |-> "list", n |-> PyNone, s |-> <<>>, l |-> lst, o |-> NoObj]
JObj(obj) == [t |-> "obj", n |-> PyNone, s |-> <<>>, l |-> <<>>, o |-> obj]
JInt(i) == JNum(Fin(i, 0))
JWord(w) == JStr(<<w>>)

\* a key the object does not hold (used only to build objects)
ABSENT == [t |-> "absent", n |-> PyNone, s |-> <<>>, l |-> <<>>, o |-> NoObj]
\* a body that json.loads / r.json() rejects
NOTJSON == [t |-> "notjson", n |-> PyNone, s |-> <<>>, l |-> <<>>, o |-> NoObj]

\* the object holding the fields of record r that are not ABSENT
MkObj(r) == JObj([key \in {x \in DOMAIN r : r[x] # ABSENT} |-> r[key]])

IsObj(j) == j.t = "obj"
Has(j, key) == key \in DOMAIN j.o

\* d.get(key) and d.get(key, {}) on a dict d
Get(j, key) == IF Has(j, key) THEN j.o[key] ELSE JNull
GetOr(j, key, dflt) == IF Has(j, key) THEN j.o[key] ELSE dflt

\* bool(x)
Truthy(j) ==
    CASE j.t = "null" -> FALSE
      [] j.t \in {"num", "bool"} -> ~(j.n.k = "fin" /\ j.n.m = 0)
      [] j.t = "str" -> j.s # <<>>
      [] j.t = "list" -> j.l # <<>>
      [] j.t = "obj" -> DOMAIN j.o # {}
      [] OTHER -> FALSE

\* x or dflt
Or(j, dflt) == IF Truthy(j) THEN j ELSE dflt

\* float(x): Raised stands for TypeError / ValueError / OverflowError
PyFloat(j) ==
    CASE j.t \in {"num", "bool"} -> IF j.n.k = "huge" THEN Raised ELSE j.n
      [] j.t = "str" -> PyFloatStr(j.s)
      [] OTHER -> Raised

\* int(str): surrounding whitespace, an optional sign, digits
PyIntStr(s0) ==
    With(strip(s0), LAMBDA s :
    With(IF At(s, 1) \in {"-", "+"} THEN 2 ELSE 1, LAMBDA i0 :
    With(Skip(s, i0, DIGIT), LAMBDA i1 :
        IF i1 = Len(s) + 1 /\ i1 > i0
        THEN With(PyIntDigits(SubSeq(s, i0, i1 - 1)),
                  LAMBDA x : IF At(s, 1) = "-" THEN Negate(x) ELSE x)
        ELSE Raised)))

\* truncation toward zero of a finite decimal
Trunc(x) ==
    IF x.m >= 0 THEN x.m \div Pow10(x.e)
    ELSE 0 - ((0 - x.m) \div Pow10(x.e))

\* int(x): Raised stands for TypeError / ValueError / OverflowError
PyInt(j) ==
    CASE j.t \in {"num", "bool"} ->
            CASE j.n.k = "fin" -> Fin(Trunc(j.n), 0)
              [] j.n.k = "huge" -> j.n
              [] OTHER -> Raised
      [] j.t = "str" -> PyIntStr(j.s)
      [] OTHER -> Raised

----------------------------------------------------------------------------
(* Replies and outbound calls. *)

\* JsonResponse(body, status=status)
JsonResponse(body, status) == [kind |-> "json", status |-> status, body |-> body]
\* an exception that leaves the view uncaught
Uncaught == [kind |-> "exception", status |-> 0, body |-> JNull]
\* no reply (a helper returning None, or no request handled yet)
NoReply == [kind |-> "none", status |-> 0, body |-> JNull]

ErrorBody(msg) == JObj([error |-> JStr(msg)])

\* one outbound HTTP request through _session
Call(service, profile, payload) ==
    [service |-> service, profile |-> profile, payload |-> payload]

\* what the far end does with a call: no answer at all (net = "fail"), or a
\* final HTTP status and a body (a JSON value, or NOTJSON)
Response(net, status, body) == [net |-> net, status |-> status, body |-> body]
NoResponse == Response("none", 0, JNull)

----------------------------------------------------------------------------
(* views.py:11-22: the shared session. *)

status_forcelist == {429, 500, 502, 503, 504}

\* _session.post / _session.get on an https URL. A connection failure or a
\* timeout raises; so does a status of the forcelist once the retries are
\* used up (urllib3 raises MaxRetryError, requests RetryError). Otherwise the
\* response is handed to the caller whatever its status.
_session_send(resp) ==
    IF resp.net = "fail" \/ resp.status \in status_forcelist
    THEN [raised |-> TRUE, r |-> NoResponse]
    ELSE [raised |-> FALSE, r |-> resp]

----------------------------------------------------------------------------
(* views.py:26-66: helpers. *)

\* a seeded fault: the key is never looked at
KeyUnchecked == NoReply

_ensure_key ==
    IF ORS_KEY = ""
    THEN JsonResponse(ErrorBody(<<"ORS_API_KEY nao configurada no .env">>), 500)
    ELSE NoReply

LAT_MIN == -90
LAT_MAX == 90
LNG_MIN == -180
LNG_MAX == 180

\* a seeded fault: the longitude is left unchecked
InRangeLatOnly(lat, lng) ==
    FloatLe(Fin(LAT_MIN, 0), lat) /\ FloatLe(lat, Fin(LAT_MAX, 0))

\* -90 <= lat <= 90 and -180 <= lng <= 180
InRange(lat, lng) ==
    /\ FloatLe(Fin(LAT_MIN, 0), lat) /\ FloatLe(lat, Fin(LAT_MAX, 0))
    /\ FloatLe(Fin(LNG_MIN, 0), lng) /\ FloatLe(lng, Fin(LNG_MAX, 0))

\* float(p[key]): Raised when the subscript or the conversion raises
Coordinate(p, key) ==
    IF IsObj(p) /\ Has(p, key) THEN PyFloat(p.o[key]) ELSE Raised

\* [ok, lat, lng, msg]: ok = FALSE stands for the ValueError raised, msg its text
_validate_point(p, name) ==
    With(Coordinate(p, "lat"), LAMBDA lat :
    With(Coordinate(p, "lng"), LAMBDA lng :
        IF lat = Raised \/ lng = Raised
        THEN [ok |-> FALSE, lat |-> NaN, lng |-> NaN,
              msg |-> name \o <<" invalido. Esperado {lat, lng} numericos.">>]
        ELSE IF ~InRange(lat, lng)
        THEN [ok |-> FALSE, lat |-> NaN, lng |-> NaN,
              msg |-> name \o <<" fora de faixa.">>]
        ELSE [ok |-> TRUE, lat |-> lat, lng |-> lng, msg |-> <<>>]))

\* the items `for i, w in enumerate(waypoints or [])` visits; a truthy value
\* that is no list either cannot be iterated or yields items that are no
\* points (the keys of a dict, the characters of a str)
WaypointItems(waypoints) ==
    IF ~Truthy(waypoints) THEN [ok |-> TRUE, items |-> <<>>]
    ELSE IF waypoints.t = "list" THEN [ok |-> TRUE, items |-> waypoints.l]
    ELSE [ok |-> FALSE, items |-> <<>>]

\* a seeded fault: latitude first
LatLng(o) == JList(<<JNum(o.lat), JNum(o.lng)>>)

\* [o["lng"], o["lat"]] of a validated point
LngLat(o) == JList(<<JNum(o.lng), JNum(o.lat)>>)

BuildFailed(msg) == [ok |-> FALSE, coords |-> <<>>, msg |-> msg]

\* the loop of _build_coordinates from waypoint i on, coords being the list
\* built so far: [ok, coords, msg]
RECURSIVE BuildWaypoints(_, _, _)
BuildWaypoints(ws, i, coords) ==
    IF i > Len(ws) THEN [ok |-> TRUE, coords |-> coords, msg |-> <<>>]
    ELSE With(_validate_point(ws[i], <<"waypoint[", ToString(i - 1), "]">>),
              LAMBDA w : IF ~w.ok THEN BuildFailed(w.msg)
                         ELSE BuildWaypoints(ws, i + 1, Append(coords, LngLat(w))))

\* [ok, coords, msg]: coords is the list of [lon, lat] pairs; ok = FALSE
\* stands for the exception raised
_build_coordinates(origin, waypoints, destination) ==
    With(_validate_point(origin, <<"origin">>), LAMBDA o :
        IF ~o.ok THEN BuildFailed(o.msg)
        ELSE With(WaypointItems(waypoints), LAMBDA it :
        IF ~it.ok THEN BuildFailed(<<"waypoints: TypeError">>)
        ELSE With(BuildWaypoints(it.items, 1, <<LngLat(o)>>), LAMBDA ws :
        IF ~ws.ok THEN ws
        ELSE With(_validate_point(destination, <<"destination">>), LAMBDA d :
        IF ~d.ok THEN BuildFailed(d.msg)
        ELSE [ok |-> TRUE, coords |-> Append(ws.coords, LngLat(d)),
              msg |-> <<>>]))))

_ALLOWED_AVOIDS ==
    {"tollways", "ferries", "highways", "steps", "fords", "pavedroads",
     "unpavedroads"}

\* a in _ALLOWED_AVOIDS for a hashable a
InAllowed(a) == a.t = "str" /\ Len(a.s) = 1 /\ a.s[1] \in _ALLOWED_AVOIDS

\* a seeded fault: an item already kept is not kept again
RECURSIVE AvoidsOnce(_, _)
AvoidsOnce(lst, i) ==
    IF i > Len(lst) THEN <<>>
    ELSE IF InAllowed(lst[i]) /\ \A j \in 1..(i - 1) : lst[j] # lst[i]
    THEN <<lst[i]>> \o AvoidsOnce(lst, i + 1)
    ELSE AvoidsOnce(lst, i + 1)

\* [a for a in lst[i..] if a in _ALLOWED_AVOIDS]
RECURSIVE AvoidsFrom(_, _)
AvoidsFrom(lst, i) ==
    IF i > Len(lst) THEN <<>>
    ELSE IF InAllowed(lst[i]) THEN <<lst[i]>> \o AvoidsFrom(lst, i + 1)
    ELSE AvoidsFrom(lst, i + 1)

\* [ok, list]: ok = FALSE stands for the TypeError of a value that cannot be
\* iterated (a number, true) or of an unhashable item (a list, a dict). The
\* characters of a str are never allowed names; a dict (iterated by its keys)
\* is not modelled as an input.
_sanitize_avoids(avoid_features) ==
    IF ~Truthy(avoid_features) THEN [ok |-> TRUE, list |-> <<>>]
    ELSE IF avoid_features.t = "str" THEN [ok |-> TRUE, list |-> <<>>]
    ELSE IF avoid_features.t # "list" THEN [ok |-> FALSE, list |-> <<>>]
    ELSE IF \E i \in 1..Len(avoid_features.l) :
                avoid_features.l[i].t \in {"list", "obj"}
    THEN [ok |-> FALSE, list |-> <<>>]
    ELSE [ok |-> TRUE, list |-> AvoidsFrom(avoid_features.l, 1)]

KG_THRESHOLD == 1000

\* v / 1000.0
DivThousand(x) == IF x.k = "fin" THEN Fin(x.m, x.e + 3) ELSE x

\* a seeded fault: 1000 itself is taken for kilograms
KgToTonnesFromThreshold(v) ==
    IF v = JNull THEN JNull
    ELSE With(PyFloat(v), LAMBDA f :
        IF f = Raised THEN v
        ELSE IF FloatLe(Fin(KG_THRESHOLD, 0), f) THEN JNum(DivThousand(f))
        ELSE JNum(f))

_kg_to_t_if_needed(v) ==
    IF v = JNull THEN JNull
    ELSE With(PyFloat(v), LAMBDA f :
        IF f = Raised THEN v
        ELSE IF FloatLt(Fin(KG_THRESHOLD, 0), f) THEN JNum(DivThousand(f))
        ELSE JNum(f))

----------------------------------------------------------------------------
(* views.py:68-96: the directions call and the summary. *)

DirectionsFailed(rep) == [failed |-> TRUE, data |-> JNull, reply |-> rep]

\* [failed, reply, data]: failed = TRUE when a JsonResponse is returned
\* instead of the provider's data
_call_ors_directions(resp) ==
    With(_session_send(resp), LAMBDA sent :
        IF sent.raised
        THEN DirectionsFailed(
                 JsonResponse(ErrorBody(<<"Erro de rede ao chamar ORS">>), 502))
        ELSE IF sent.r.body = NOTJSON
        THEN DirectionsFailed(
                 JsonResponse(ErrorBody(<<"Falha ao interpretar resposta do ORS">>),
                              502))
        ELSE IF sent.r.status # 200
        THEN DirectionsFailed(
                 JsonResponse(JObj([error |-> JWord("Erro do ORS"),
                                    status |-> JInt(sent.r.status),
                                    detail |-> sent.r.body]),
                              sent.r.status))
        ELSE [failed |-> FALSE, data |-> sent.r.body, reply |-> NoReply])

\* d[key] for a value d that may be no dict: NOTJSON stands for the exception
Sub(d, key) == IF IsObj(d) /\ Has(d, key) THEN d.o[key] ELSE NOTJSON

\* lst[0] likewise
First(lst) == IF lst.t = "list" /\ lst.l # <<>> THEN lst.l[1] ELSE NOTJSON

\* None (JNull) whenever a subscript or .get of the try block raises
_extract_summary(geojson) ==
    With(Sub(First(Sub(geojson, "features")), "properties"), LAMBDA props :
    With(Sub(props, "summary"), LAMBDA summ :
        IF ~IsObj(summ) THEN JNull
        ELSE JObj([distance_m |-> Get(summ, "distance"),
                   duration_s |-> Get(summ, "duration"),
                   segments |-> Get(props, "segments"),
                   bbox |-> Get(geojson, "bbox")])))

----------------------------------------------------------------------------
(* views.py:145-316: health and the two route endpoints. *)

\* what a handler did: the calls it issued and how it ended
Outcome(cs, rep) == [calls |-> cs, reply |-> rep]

health(req) == Outcome(<<>>, JsonResponse(JObj([ok |-> JBool(TRUE)]), 200))

PayloadFailed(msg) == [ok |-> FALSE, payload |-> JNull, msg |-> msg]

\* _build_coordinates(body["origin"], body.get("waypoints"), body["destination"])
BodyCoordinates(body) ==
    IF ~(IsObj(body) /\ Has(body, "origin") /\ Has(body, "destination"))
    THEN BuildFailed(<<"body: KeyError/TypeError">>)
    ELSE _build_coordinates(body.o["origin"], Get(body, "waypoints"),
                            body.o["destination"])

\* the payload of rota_carro: [ok, payload, msg]; ok = FALSE stands for the
\* exception the try block catches
CarPayload(body) ==
    With(BodyCoordinates(body), LAMBDA b :
        IF ~b.ok THEN PayloadFailed(b.msg)
        ELSE With(_sanitize_avoids(Get(body, "avoid_features")), LAMBDA a :
        IF ~a.ok THEN PayloadFailed(<<"avoid_features: TypeError">>)
        ELSE [ok |-> TRUE, msg |-> <<>>,
              payload |-> MkObj(
                  [coordinates |-> JList(b.coords),
                   instructions |-> JBool(TRUE),
                   options |-> IF a.list # <<>>
                               THEN JObj([avoid_features |-> JList(a.list)])
                               ELSE ABSENT])]))

\* the rest of a route handler once the payload is built: the call, then
\* the provider's error reply or the 200 reply
RouteCall(profile, payload, resp) ==
    With(_call_ors_directions(resp), LAMBDA c :
        Outcome(<<Call("ors-directions", profile, payload)>>,
                IF c.failed THEN c.reply
                ELSE JsonResponse(JObj([summary |-> _extract_summary(c.data),
                                        geojson |-> c.data]),
                                  200)))

\* a route handler from its method check on, p being the payload its try
\* block builds
RouteHandler(req, resp, profile, p) ==
    IF req.method # "POST"
    THEN Outcome(<<>>, JsonResponse(ErrorBody(<<"POST only">>), 405))
    ELSE IF _ensure_key # NoReply THEN Outcome(<<>>, _ensure_key)
    ELSE IF ~p.ok THEN Outcome(<<>>, JsonResponse(ErrorBody(p.msg), 400))
    ELSE RouteCall(profile, p.payload, resp)

rota_carro(req, resp) ==
    RouteHandler(req, resp, "driving-car", CarPayload(req.body))

\* the dict `restrictions` of rota_caminhao before its None values are dropped
TruckRestrictions(truck) ==
    [height |-> Get(truck, "height"),
     width |-> Get(truck, "width"),
     length |-> Get(truck, "length"),
     weight |-> _kg_to_t_if_needed(Get(truck, "weight")),
     axleload |-> _kg_to_t_if_needed(Get(truck, "axleload"))]

\* {k: v for k, v in restrictions.items() if v is not None}
DropNone(r) == JObj([key \in {x \in DOMAIN r : r[x] # JNull} |-> r[key]])

\* the payload of rota_caminhao: [ok, payload, msg]
TruckPayload(body) ==
    With(BodyCoordinates(body), LAMBDA b :
        IF ~b.ok THEN PayloadFailed(b.msg)
        ELSE With(GetOr(body, "truck", JObj(NoObj)), LAMBDA truck :
        IF ~IsObj(truck) THEN PayloadFailed(<<"truck: AttributeError">>)
        ELSE With(DropNone(TruckRestrictions(truck)), LAMBDA restrictions :
        With(_sanitize_avoids(Get(body, "avoid_features")), LAMBDA a :
        IF ~a.ok THEN PayloadFailed(<<"avoid_features: TypeError">>)
        ELSE [ok |-> TRUE, msg |-> <<>>,
              payload |-> JObj(
                  [coordinates |-> JList(b.coords),
                   instructions |-> JBool(TRUE),
                   options |-> MkObj(
                       [avoid_features |-> IF a.list # <<>>
                                           THEN JList(a.list) ELSE ABSENT,
                        profile_params |->
                            IF Truthy(restrictions)
                            THEN JObj([restrictions |-> restrictions])
                            ELSE ABSENT,
                        vehicle_type |-> JWord("hgv")])])]))))

rota_caminhao(req, resp) ==
    RouteHandler(req, resp, "driving-hgv", TruckPayload(req.body))

----------------------------------------------------------------------------
(* views.py:98-141: parse of an OSM maxheight value into metres. *)

\* _FEET_IN_M = 0.3048, as 3048 * 10^-4; an inch is a twelfth of it
FEET_IN_M_E4 == 3048
INCH_IN_M_E4 == 254

_to_float(s) ==
    With(PyFloatStr(s), LAMBDA a :
        IF a # Raised THEN a
        ELSE With(PyFloatStr(replace_comma(s)), LAMBDA b :
        IF b # Raised THEN b ELSE PyNone))

Match(matched, g1, g2) == [matched |-> matched, g1 |-> g1, g2 |-> g2]
NoMatch == Match(FALSE, <<>>, <<>>)

\* re.match(r"^\s*([0-9]+[.,]?[0-9]*)\s*(m|meter|metros)?\s*$", s):
\* [matched, group(1)]
m_num(s) ==
    With(Skip(s, 1, SPACE), LAMBDA i0 :
    With(Skip(s, i0, DIGIT), LAMBDA i1 :
    With(Skip(s, IF At(s, i1) \in SEP THEN i1 + 1 ELSE i1, DIGIT), LAMBDA i3 :
    With(Skip(s, i3, SPACE), LAMBDA i4 :
    With(Skip(s, IF At(s, i4) \in METRE_UNIT THEN i4 + 1 ELSE i4, SPACE),
         LAMBDA i6 :
        IF i1 > i0 /\ i6 = Len(s) + 1
        THEN Match(TRUE, SubSeq(s, i0, i3 - 1), <<>>)
        ELSE NoMatch)))))

\* re.match(r"^\s*(\d+)\s*'\s*([0-9]+)\s*\"?\s*$", s):
\* [matched, group(1), group(2)]
m_ft_in(s) ==
    With(Skip(s, 1, SPACE), LAMBDA i0 :
    With(Skip(s, i0, DIGIT), LAMBDA i1 :
    With(Skip(s, i1, SPACE), LAMBDA i2 :
    With(Skip(s, i2 + 1, SPACE), LAMBDA i4 :
    With(Skip(s, i4, DIGIT), LAMBDA i5 :
    With(Skip(s, i5, SPACE), LAMBDA i6 :
    With(Skip(s, IF At(s, i6) = "\"" THEN i6 + 1 ELSE i6, SPACE), LAMBDA i8 :
        IF i1 > i0 /\ At(s, i2) = "'" /\ i5 > i4 /\ i8 = Len(s) + 1
        THEN Match(TRUE, SubSeq(s, i0, i1 - 1), SubSeq(s, i4, i5 - 1))
        ELSE NoMatch)))))))

\* re.match(r"^\s*([0-9]+(?:[.,][0-9]+)?)\s*(ft|foot|feet)\s*$", s):
\* [matched, group(1)]
m_ft(s) ==
    With(Skip(s, 1, SPACE), LAMBDA i0 :
    With(Skip(s, i0, DIGIT), LAMBDA i1 :
    With(IF At(s, i1) \in SEP /\ At(s, i1 + 1) \in DIGIT
         THEN Skip(s, i1 + 1, DIGIT) ELSE i1, LAMBDA i2 :
    With(Skip(s, i2, SPACE), LAMBDA i3 :
    With(Skip(s, i3 + 1, SPACE), LAMBDA i5 :
        IF i1 > i0 /\ At(s, i3) \in FEET_UNIT /\ i5 = Len(s) + 1
        THEN Match(TRUE, SubSeq(s, i0, i2 - 1), <<>>)
        ELSE NoMatch)))))

\* ft * _FEET_IN_M + (inch/12.0) * _FEET_IN_M for ints ft and inch: the
\* int -> float conversion raises OverflowError on an int beyond the float
\* range
FeetInches(ft, inch) ==
    IF ft.k = "huge" \/ inch.k = "huge" THEN Raised
    ELSE Fin(ft.m * FEET_IN_M_E4 + inch.m * INCH_IN_M_E4, 4)

\* The result is a float, PyNone or Raised (OverflowError). raw is a str in
\* the first place; str(raw) of a number parses back to that number (to inf
\* for an int beyond the float range), and of true, a list or a dict to
\* nothing.
_parse_maxheight_to_meters(raw) ==
    IF ~Truthy(raw) THEN PyNone
    ELSE IF raw.t = "num" THEN (IF raw.n.k = "huge" THEN Inf(raw.n.m) ELSE raw.n)
    ELSE IF raw.t # "str" THEN PyNone
    ELSE With(lower(strip(raw.s)), LAMBDA s :
         With(m_num(s), LAMBDA m1 :
         IF m1.matched THEN _to_float(m1.g1)
         ELSE With(m_ft_in(s), LAMBDA m2 :
         IF m2.matched
         THEN FeetInches(PyIntDigits(m2.g1), PyIntDigits(m2.g2))
         ELSE With(m_ft(s), LAMBDA m3 :
         IF m3.matched THEN FloatTimes(_to_float(m3.g1), FEET_IN_M_E4, 4)
         ELSE _to_float(s)))))

----------------------------------------------------------------------------
(* views.py:149-217: geocode_search. *)

DEFAULT_SIZE == 5

\* x.strip() of `(x or dflt).strip()`: [ok, s]; ok = FALSE is AttributeError
OrStrip(j, dflt) ==
    IF ~Truthy(j) THEN [ok |-> TRUE, s |-> strip(dflt)]
    ELSE IF j.t = "str" THEN [ok |-> TRUE, s |-> strip(j.s)]
    ELSE [ok |-> FALSE, s |-> <<>>]

\* the optional parameters of the query: the keys present map to floats
\* (Raised when float() raised)
FocusParams(body) ==
    IF Get(body, "focus_lat") # JNull /\ Get(body, "focus_lng") # JNull
    THEN ("focus.point.lat" :> PyFloat(body.o["focus_lat"]))
         @@ ("focus.point.lon" :> PyFloat(body.o["focus_lng"]))
    ELSE NoObj

RECT_KEYS == {"rect_north", "rect_south", "rect_east", "rect_west"}

RectParams(body) ==
    IF \A key \in RECT_KEYS : Has(body, key)
    THEN ("boundary.rect.min_lat" :> PyFloat(body.o["rect_south"]))
         @@ ("boundary.rect.min_lon" :> PyFloat(body.o["rect_west"]))
         @@ ("boundary.rect.max_lat" :> PyFloat(body.o["rect_north"]))
         @@ ("boundary.rect.max_lon" :> PyFloat(body.o["rect_east"]))
    ELSE NoObj

CountryParam(body) ==
    With(IF Get(body, "country") = JNull THEN JWord("BR")
         ELSE Get(body, "country"), LAMBDA country :
        IF country.t = "str" /\ strip(country.s) # <<>>
        THEN "boundary.country" :> JStr(strip(country.s))
        ELSE NoObj)

GeocodeRaised == [st |-> "raise", params |-> JNull]

\* the part of the try block before the call:
\* [st, params], st = "ok", "noq" (the 400 reply) or "raise"
GeocodeParams(body) ==
    IF ~IsObj(body) THEN GeocodeRaised
    ELSE With(OrStrip(Get(body, "q"), <<>>), LAMBDA q :
        IF ~q.ok THEN GeocodeRaised
        ELSE IF q.s = <<>> THEN [st |-> "noq", params |-> JNull]
        ELSE With(PyInt(Or(Get(body, "limit"), JInt(DEFAULT_SIZE))), LAMBDA size :
        With(OrStrip(Get(body, "lang"), <<"pt">>), LAMBDA lang :
        With(FocusParams(body) @@ RectParams(body), LAMBDA opt :
        IF size = Raised \/ ~lang.ok \/ \E key \in DOMAIN opt : opt[key] = Raised
        THEN GeocodeRaised
        ELSE [st |-> "ok",
              params |-> JObj(
                  ("api_key" :> JWord(ORS_KEY)) @@ ("text" :> JStr(q.s))
                  @@ ("size" :> JNum(size)) @@ ("lang" :> JStr(lang.s))
                  @@ CountryParam(body)
                  @@ [key \in DOMAIN opt |-> JNum(opt[key])])]))))

\* the items a for loop over x visits: [ok, items]; ok = FALSE when x cannot
\* be iterated. A non-empty dict yields its keys, which are strs: since the
\* first str item already makes either loop raise, one stands for them all.
Iterate(x) ==
    CASE x.t = "list" -> [ok |-> TRUE, items |-> x.l]
      [] x.t = "str" -> [ok |-> TRUE, items |-> [i \in 1..Len(x.s) |-> JWord(x.s[i])]]
      [] x.t = "obj" /\ DOMAIN x.o = {} -> [ok |-> TRUE, items |-> <<>>]
      [] x.t = "obj" -> [ok |-> TRUE, items |-> <<JWord("key")>>]
      [] OTHER -> [ok |-> FALSE, items |-> <<>>]

\* len(x): -1 stands for TypeError
PyLen(x) ==
    CASE x.t = "list" -> Len(x.l)
      [] x.t = "str" -> Len(x.s)
      [] x.t = "obj" -> Cardinality(DOMAIN x.o)
      [] OTHER -> 0 - 1

Turn(ok, hit, item) == [ok |-> ok, hit |-> hit, item |-> item]

\* one turn of the loop over the features: [ok, hit, item]; ok = FALSE
\* stands for an exception
GeocodeFeature(feat) ==
    With(GetOr(feat, "geometry", JObj(NoObj)), LAMBDA geometry :
        IF ~IsObj(feat) \/ ~IsObj(geometry) THEN Turn(FALSE, FALSE, JNull)
        ELSE With(GetOr(geometry, "coordinates", JList(<<>>)), LAMBDA coords :
        With(GetOr(feat, "properties", JObj(NoObj)), LAMBDA props :
        With(PyLen(coords), LAMBDA n :
        IF n < 0 THEN Turn(FALSE, FALSE, JNull)
        ELSE IF n # 2 THEN Turn(TRUE, FALSE, JNull)
        ELSE IF ~IsObj(props) \/ coords.t = "obj" THEN Turn(FALSE, FALSE, JNull)
        ELSE Turn(TRUE, TRUE,
                  JObj([label |-> Or(Get(props, "label"),
                                     Or(Get(props, "name"), JWord("resultado"))),
                        lng |-> Iterate(coords).items[1],
                        lat |-> Iterate(coords).items[2]]))))))

\* the loop from feature i on, results being the list built so far:
\* [ok, results]
RECURSIVE GeocodeResults(_, _, _)
GeocodeResults(feats, i, results) ==
    IF i > Len(feats) THEN [ok |-> TRUE, results |-> results]
    ELSE With(GeocodeFeature(feats[i]), LAMBDA f :
        IF ~f.ok THEN [ok |-> FALSE, results |-> <<>>]
        ELSE GeocodeResults(feats, i + 1,
                            IF f.hit THEN Append(results, f.item) ELSE results))

GeocodeFailed == JsonResponse(ErrorBody(<<"Falha no geocode">>), 500)

\* the part of the try block after the call: the reply
GeocodeReply(resp) ==
    With(_session_send(resp), LAMBDA sent :
        IF sent.raised \/ sent.r.body = NOTJSON \/ ~IsObj(sent.r.body)
        THEN GeocodeFailed
        ELSE With(Iterate(GetOr(sent.r.body, "features", JList(<<>>))), LAMBDA it :
        IF ~it.ok THEN GeocodeFailed
        ELSE With(GeocodeResults(it.items, 1, <<>>), LAMBDA rs :
        IF ~rs.ok THEN GeocodeFailed
        ELSE JsonResponse(JObj([results |-> JList(rs.results)]), 200))))

geocode_search(req, resp) ==
    IF req.method # "POST"
    THEN Outcome(<<>>, JsonResponse(ErrorBody(<<"POST only">>), 405))
    ELSE IF _ensure_key # NoReply THEN Outcome(<<>>, _ensure_key)
    ELSE With(GeocodeParams(req.body), LAMBDA p :
        CASE p.st = "raise" -> Outcome(<<>>, GeocodeFailed)
          [] p.st = "noq" ->
               Outcome(<<>>, JsonResponse(
                   ErrorBody(<<"q (texto de busca) e obrigatorio">>), 400))
          [] OTHER ->
               Outcome(<<Call("ors-geocode", "", p.params)>>, GeocodeReply(resp)))

----------------------------------------------------------------------------
(* views.py:318-407: obstaculos_altura. *)

DEFAULT_LIMIT == 500

ParamsRaised ==
    [ok |-> FALSE, bbox |-> NoObj, limit |-> PyNone, vehicle_height_m |-> PyNone]

BBOX_KEYS == {"south", "west", "north", "east"}

\* the first try block: [ok, bbox, limit, vehicle_height_m]; ok = FALSE
\* stands for the exception it catches. limit is an int, vehicle_height_m a
\* float or PyNone.
ObstacleParams(body) ==
    IF ~IsObj(body) THEN ParamsRaised
    ELSE With(Or(Get(body, "bbox"), JObj(NoObj)), LAMBDA bbox :
        With([key \in BBOX_KEYS |-> Coordinate(bbox, key)], LAMBDA f :
        With(PyInt(Or(Get(body, "limit"), JInt(DEFAULT_LIMIT))), LAMBDA limit :
        With(IF Get(body, "vehicle_height_m") # JNull
             THEN PyFloat(Get(body, "vehicle_height_m")) ELSE PyNone, LAMBDA vh :
        IF (\E key \in BBOX_KEYS : f[key] = Raised) \/ limit = Raised \/ vh = Raised
        THEN ParamsRaised
        ELSE [ok |-> TRUE, bbox |-> f, limit |-> limit, vehicle_height_m |-> vh]))))

\* lat and lon of an element: [ok, skip, lat, lon]; ok = FALSE stands for
\* the AttributeError of a center that is no dict, skip for `continue`
ElementPosition(el) ==
    IF Get(el, "type") = JWord("node")
    THEN [ok |-> TRUE, skip |-> FALSE, lat |-> Get(el, "lat"), lon |-> Get(el, "lon")]
    ELSE With(Or(Get(el, "center"), JObj(NoObj)), LAMBDA center :
        [ok |-> IsObj(center),
         skip |-> Get(center, "lat") = JNull \/ Get(center, "lon") = JNull,
         lat |-> Get(center, "lat"), lon |-> Get(center, "lon")])

\* kind of an element from its tags
ElementKind(tags) ==
    IF Get(tags, "tunnel") = JWord("yes") THEN "tunnel"
    ELSE IF Get(tags, "bridge") = JWord("yes") THEN "bridge"
    ELSE "way"

\* one turn of the loop over the elements: [ok, hit, item]; ok = FALSE stands
\* for an exception, which nothing catches
ObstacleElement(el) ==
    IF ~IsObj(el) THEN Turn(FALSE, FALSE, JNull)
    ELSE With(Or(GetOr(el, "tags", JObj(NoObj)), JObj(NoObj)), LAMBDA tags :
        IF ~IsObj(tags) THEN Turn(FALSE, FALSE, JNull)
        ELSE With(Or(Get(tags, "maxheight"), Get(tags, "maxheight:physical")),
                  LAMBDA raw :
        IF ~Truthy(raw) THEN Turn(TRUE, FALSE, JNull)
        ELSE With(_parse_maxheight_to_meters(raw), LAMBDA mh_m :
        With(ElementPosition(el), LAMBDA pos :
        IF mh_m = Raised \/ ~pos.ok THEN Turn(FALSE, FALSE, JNull)
        ELSE IF pos.skip THEN Turn(TRUE, FALSE, JNull)
        ELSE Turn(TRUE, TRUE,
                  JObj([lat |-> pos.lat, lng |-> pos.lon, maxheight |-> raw,
                        maxheight_m |-> IF mh_m = PyNone THEN JNull
                                        ELSE JNum(mh_m),
                        kind |-> JWord(ElementKind(tags)),
                        osm_id |-> Get(el, "id")]))))))

\* the loop from element i on, feats being the list built so far:
\* [ok, feats]
RECURSIVE ObstacleFeatures(_, _, _)
ObstacleFeatures(els, i, feats) ==
    IF i > Len(els) THEN [ok |-> TRUE, feats |-> feats]
    ELSE With(ObstacleElement(els[i]), LAMBDA e :
        IF ~e.ok THEN [ok |-> FALSE, feats |-> <<>>]
        ELSE ObstacleFeatures(els, i + 1,
                              IF e.hit THEN Append(feats, e.item) ELSE feats))

\* a seeded fault: an obstacle as high as the vehicle is kept
NotAboveVehicle(f, vehicle_height_m) ==
    /\ f.o["maxheight_m"] # JNull
    /\ FloatLe(f.o["maxheight_m"].n, vehicle_height_m)

\* f.get("maxheight_m") is not None and f["maxheight_m"] < vehicle_height_m
BelowVehicle(f, vehicle_height_m) ==
    /\ f.o["maxheight_m"] # JNull
    /\ FloatLt(f.o["maxheight_m"].n, vehicle_height_m)

\* [f for f in feats[i..] if BelowVehicle(f)]
RECURSIVE FilterByHeight(_, _, _)
FilterByHeight(feats, i, vehicle_height_m) ==
    IF i > Len(feats) THEN <<>>
    ELSE (IF BelowVehicle(feats[i], vehicle_height_m) THEN <<feats[i]>> ELSE <<>>)
         \o FilterByHeight(feats, i + 1, vehicle_height_m)

\* if limit and len(feats) > limit: feats = feats[:limit]
\* (a negative stop of a slice counts from the end)
ApplyLimit(feats, limit) ==
    IF limit.k = "huge" THEN (IF limit.m > 0 THEN feats ELSE <<>>)
    ELSE IF limit.m # 0 /\ Len(feats) > limit.m
         THEN IF limit.m > 0 THEN SubSeq(feats, 1, limit.m)
              ELSE SubSeq(feats, 1, MaxOf(Len(feats) + limit.m, 0))
         ELSE feats

\* the filter and the limit: the features of the reply
KeptFeatures(feats, p) ==
    ApplyLimit(IF p.vehicle_height_m # PyNone
               THEN FilterByHeight(feats, 1, p.vehicle_height_m)
               ELSE feats,
               p.limit)

\* the handler after its call: the reply, or Uncaught
ObstacleReply(p, resp) ==
    With(_session_send(resp), LAMBDA sent :
        IF sent.raised \/ sent.r.body = NOTJSON
        THEN JsonResponse(ErrorBody(<<"Falha Overpass">>), 502)
        ELSE IF ~IsObj(sent.r.body) THEN Uncaught
        ELSE With(Iterate(GetOr(sent.r.body, "elements", JList(<<>>))), LAMBDA it :
        IF ~it.ok THEN Uncaught
        ELSE With(ObstacleFeatures(it.items, 1, <<>>), LAMBDA fs :
        IF ~fs.ok THEN Uncaught
        ELSE JsonResponse(
                 JObj([features |-> JList(KeptFeatures(fs.feats, p)),
                       filtered_by_height |-> JBool(p.vehicle_height_m # PyNone)]),
                 200))))

obstaculos_altura(req, resp) ==
    IF req.method # "POST"
    THEN Outcome(<<>>, JsonResponse(ErrorBody(<<"POST only">>), 405))
    ELSE With(ObstacleParams(req.body), LAMBDA p :
        IF ~p.ok
        THEN Outcome(<<>>, JsonResponse(
                 ErrorBody(<<"bbox ou parametros invalidos">>), 400))
        ELSE Outcome(
                 <<Call("overpass", "",
                        JObj([key \in BBOX_KEYS |-> JNum(p.bbox[key])]
                             @@ ("limit" :> JNum(p.limit))))>>,
                 ObstacleReply(p, resp)))

----------------------------------------------------------------------------
(* The state machine: one request at a time, nothing kept between requests. *)

Request(method, body) == [method |-> method, body |-> body]
NoRequest == Request("", JNull)

\* the result of a helper not applied yet
Pending == [k |-> "pending", m |-> 0, e |-> 0]

Idle ==
    /\ pc = "idle"
    /\ endpoint = "none"
    /\ request = NoRequest
    /\ calls = <<>>
    /\ upstream = NoResponse
    /\ reply = NoReply

\* the handler has run: out is its outcome, resp the answer of the far end,
\* which exists only if a call was issued
Handled(name, req, resp, out) ==
    /\ pc' = "done"
    /\ endpoint' = name
    /\ request' = req
    /\ calls' = out.calls
    /\ upstream' = IF out.calls = <<>> THEN NoResponse ELSE resp
    /\ reply' = out.reply
    /\ UNCHANGED <<ORS_KEY, arg, result>>

Health(Reqs) ==
    /\ pc = "idle"
    /\ \E req \in Reqs : Handled("health", req, NoResponse, health(req))

RotaCarro(Reqs, Resps) ==
    /\ pc = "idle"
    /\ \E req \in Reqs, resp \in Resps :
           Handled("rota_carro", req, resp, rota_carro(req, resp))

RotaCaminhao(Reqs, Resps) ==
    /\ pc = "idle"
    /\ \E req \in Reqs, resp \in Resps :
           Handled("rota_caminhao", req, resp, rota_caminhao(req, resp))

GeocodeSearch(Reqs, Resps) ==
    /\ pc = "idle"
    /\ \E req \in Reqs, resp \in Resps :
           Handled("geocode_search", req, resp, geocode_search(req, resp))

ObstaculosAltura(Reqs, Resps) ==
    /\ pc = "idle"
    /\ \E req \in Reqs, resp \in Resps :
           Handled("obstaculos_altura", req, resp, obstaculos_altura(req, resp))

\* the reply is out; the worker takes the next request
NextRequest ==
    /\ pc = "done"
    /\ pc' = "idle"
    /\ endpoint' = "none"
    /\ request' = NoRequest
    /\ calls' = <<>>
    /\ upstream' = NoResponse
    /\ reply' = NoReply
    /\ UNCHANGED <<ORS_KEY, arg, result>>

----------------------------------------------------------------------------
(* The maxheight parser on its own. *)

RawAlphabet ==
    {"1", "2", BIG, ".", ",", " ", "'", "\"", "m", "metros", "ft", "feet",
     "M", "FT", "-", "x"}

RawStrings == UNION {[1..n -> RawAlphabet] : n \in 0..MaxRawLen}

RawInputs == {JNull} \cup {JStr(str) : str \in RawStrings}

InitParse ==
    /\ ORS_KEY = "key"
    /\ Idle
    /\ arg \in RawInputs
    /\ result = Pending

ParseMaxheight ==
    /\ pc = "idle"
    /\ pc' = "done"
    /\ result' = _parse_maxheight_to_meters(arg)
    /\ UNCHANGED <<ORS_KEY, endpoint, request, calls, upstream, reply, arg>>

NextParse == ParseMaxheight

SpecParse == InitParse /\ [][NextParse]_vars

----------------------------------------------------------------------------
(* The avoid-feature filter on its own. *)

AvoidNames == {"tollways", "ferries", "unpavedroads", "bogus", "Tollways"}

AvoidLists ==
    UNION {[1..n -> {JWord(a) : a \in AvoidNames}] : n \in 0..MaxAvoids}

AvoidInputs == {JNull} \cup {JList(lst) : lst \in AvoidLists}

NoAvoids == [ok |-> FALSE, list |-> <<>>]

InitAvoids ==
    /\ ORS_KEY = "key"
    /\ Idle
    /\ arg \in AvoidInputs
    /\ result = NoAvoids

SanitizeAvoids ==
    /\ pc = "idle"
    /\ pc' = "done"
    /\ result' = _sanitize_avoids(arg)
    /\ UNCHANGED <<ORS_KEY, endpoint, request, calls, upstream, reply, arg>>

\* the filter run on its own output
SanitizeAgain ==
    /\ pc = "done"
    /\ result.ok
    /\ pc' = "again"
    /\ result' = _sanitize_avoids(JList(result.list))
    /\ UNCHANGED <<ORS_KEY, endpoint, request, calls, upstream, reply, arg>>

NextAvoids == SanitizeAvoids \/ SanitizeAgain

SpecAvoids == InitAvoids /\ [][NextAvoids]_vars

----------------------------------------------------------------------------
(* The two route endpoints on points of every kind. *)

Pt(lat, lng) == MkObj([lat |-> lat, lng |-> lng])

\* points that pass _validate_point: the corners of the range, a
\* numeric-string latitude with a fractional longitude
GoodPoints ==
    {Pt(JInt(-90), JInt(-180)),
     Pt(JInt(90), JInt(180)),
     Pt(JStr(<<"1", "2">>), JNum(Fin(215, 1)))}

\* points that do not: a field missing, a non-numeric str, just out of
\* range on either axis, NaN, infinity, a point that is no object
BadPoints ==
    {Pt(ABSENT, JInt(20)),
     Pt(JInt(10), JWord("x")),
     Pt(JNum(Fin(901, 1)), JInt(0)),
     Pt(JInt(0), JNum(Fin(-18001, 2))),
     Pt(JNum(NaN), JInt(0)),
     Pt(JInt(0), JNum(Inf(1))),
     JNull}

Points == GoodPoints \cup BadPoints

\* the points the waypoint lists are drawn from
WaypointPoints ==
    {Pt(JInt(90), JInt(180)),
     Pt(JStr(<<"1", "2">>), JNum(Fin(215, 1))),
     Pt(JInt(0), JNum(Fin(-18001, 2))),
     Pt(JInt(10), JWord("x"))}

WaypointLists == UNION {[1..n -> WaypointPoints] : n \in 0..MaxWaypoints}

WaypointValues ==
    {ABSENT, JNull, JInt(5)} \cup {JList(ws) : ws \in WaypointLists}

RouteBody(origin, waypoints, destination, avoid, truck) ==
    MkObj([origin |-> origin, waypoints |-> waypoints,
           destination |-> destination, avoid_features |-> avoid,
           truck |-> truck])

AvoidSample == JList(<<JWord("tollways"), JWord("bogus"), JWord("ferries")>>)

RouteBodies ==
    {RouteBody(o, w, d, a, ABSENT) :
        o \in Points \cup {ABSENT}, w \in WaypointValues,
        d \in Points \cup {ABSENT}, a \in {ABSENT, AvoidSample}}
    \cup {NOTJSON, JList(<<>>)}

GET == "GET"
POST == "POST"

\* a body every route endpoint accepts
PlainRouteBody ==
    RouteBody(Pt(JInt(90), JInt(180)), ABSENT, Pt(JInt(-90), JInt(-180)),
              ABSENT, ABSENT)

RouteReqs ==
    {Request(POST, b) : b \in RouteBodies} \cup {Request(GET, PlainRouteBody)}

\* a directions answer with a summary
GeoJson ==
    JObj([features |-> JList(<<JObj([properties |->
              JObj([summary |-> JObj([distance |-> JInt(1200),
                                      duration |-> JInt(95)])])])>>)])

ErrorJson == JObj([error |-> JWord("not found")])

RouteResps ==
    {Response("ok", 200, GeoJson),
     Response("ok", 404, ErrorJson),
     Response("fail", 0, NOTJSON)}

InitRoute ==
    /\ ORS_KEY = "key"
    /\ Idle
    /\ arg = JNull
    /\ result = Pending

NextRoute ==
    \/ RotaCarro(RouteReqs, RouteResps)
    \/ RotaCaminhao(RouteReqs, RouteResps)
    \/ NextRequest

SpecRoute == InitRoute /\ [][NextRoute]_vars

----------------------------------------------------------------------------
(* Properties of the route endpoints. *)

RouteEndpoints == {"rota_carro", "rota_caminhao"}

\* x is a finite number with lo <= x <= hi
Within(x, lo, hi) ==
    x.k = "fin" /\ lo * Pow10(x.e) <= x.m /\ x.m <= hi * Pow10(x.e)

\* p carries a numeric lat in [-90, 90] and a numeric lng in [-180, 180]
ValidPoint(p) ==
    /\ IsObj(p) /\ Has(p, "lat") /\ Has(p, "lng")
    /\ Within(PyFloat(p.o["lat"]), -90, 90)
    /\ Within(PyFloat(p.o["lng"]), -180, 180)

\* the waypoints of a request body, none when the key is absent or null
RequestWaypoints(body) ==
    IF Get(body, "waypoints").t = "list" THEN body.o["waypoints"].l ELSE <<>>

\* origin, the waypoints in request order, destination
RequestPoints(body) ==
    <<body.o["origin"]>> \o RequestWaypoints(body) \o <<body.o["destination"]>>

AllPointsValid(body) ==
    /\ IsObj(body) /\ Has(body, "origin") /\ Has(body, "destination")
    /\ Get(body, "waypoints").t \in {"list", "null"}
    /\ \A i \in 1..Len(RequestPoints(body)) : ValidPoint(RequestPoints(body)[i])

\* the [lng, lat] pair of a request point
LngLatOf(p) == JList(<<JNum(PyFloat(p.o["lng"])), JNum(PyFloat(p.o["lat"]))>>)

\* the coordinate list of the call issued
SentCoordinates == calls[1].payload.o["coordinates"].l

\* C3: on a POST to rota_carro or rota_caminhao with the key configured, a
\* request in which origin, a waypoint or destination is missing, non-numeric
\* or out of range ([-90,90] for lat, [-180,180] for lng, bounds inclusive)
\* ends with a 400 reply and no provider call; so a call is issued only if
\* every point is valid.
C3_OnlyValidPointsReachProvider ==
    (/\ pc = "done" /\ endpoint \in RouteEndpoints
     /\ request.method = POST /\ ~AllPointsValid(request.body))
    => (calls = <<>> /\ reply.kind = "json" /\ reply.status = 400)

\* C3 happens: origin, destination and the first of two waypoints are
\* valid, the second waypoint is out of range, and the reply is 400
C3_Witness ==
    /\ pc = "done" /\ endpoint = "rota_carro" /\ request.method = POST
    /\ IsObj(request.body) /\ Has(request.body, "origin")
    /\ Has(request.body, "destination")
    /\ ValidPoint(request.body.o["origin"])
    /\ ValidPoint(request.body.o["destination"])
    /\ Len(RequestWaypoints(request.body)) = 2
    /\ ValidPoint(RequestWaypoints(request.body)[1])
    /\ RequestWaypoints(request.body)[2] = Pt(JInt(0), JNum(Fin(-18001, 2)))
    /\ calls = <<>> /\ reply.status = 400

\* C6: a valid route request with n waypoints (POST, key configured, every
\* point valid) issues one call whose coordinate list has n+2 entries, the
\* i-th being the pair [lng, lat] of the i-th of origin, waypoint 0 ..
\* waypoint n-1, destination.
C6_CoordinatesInOrder ==
    (/\ pc = "done" /\ endpoint \in RouteEndpoints
     /\ request.method = POST /\ AllPointsValid(request.body))
    => /\ Len(calls) = 1
       /\ Len(SentCoordinates) = Len(RequestWaypoints(request.body)) + 2
       /\ \A i \in 1..Len(SentCoordinates) :
              SentCoordinates[i] = LngLatOf(RequestPoints(request.body)[i])

\* C6 happens: a truck route with two different waypoints, sent as four
\* pairs, the origin (lat -90, lng -180) first as [-180, -90]
C6_Witness ==
    /\ pc = "done" /\ endpoint = "rota_caminhao" /\ Len(calls) = 1
    /\ request.body.o["origin"] = Pt(JInt(-90), JInt(-180))
    /\ Len(RequestWaypoints(request.body)) = 2
    /\ RequestWaypoints(request.body)[1] # RequestWaypoints(request.body)[2]
    /\ Len(SentCoordinates) = 4
    /\ SentCoordinates[1] = JList(<<JInt(-180), JInt(-90)>>)
    /\ SentCoordinates[3] = LngLatOf(RequestWaypoints(request.body)[2])

----------------------------------------------------------------------------
(* Properties of the avoid-feature filter. *)

AllowedNames ==
    {"tollways", "ferries", "highways", "steps", "fords", "pavedroads",
     "unpavedroads"}

IsAllowedName(a) == \E name \in AllowedNames : a = JWord(name)

\* C8: for a sequence of strings _sanitize_avoids returns the subsequence of
\* the elements of the allowed set, order and duplicates kept; for an empty
\* or absent input it returns the empty list; applied to its own output it
\* returns that output.
\* (arg is the input; result is the output at "done", and the output of the
\* filter applied to that output at "again")
C8_AllowedSubsequence ==
    pc \in {"done", "again"}
    => (result.ok /\ result.list = SelectSeq(arg.l, IsAllowedName))

\* C8 happens: an unknown name is dropped and a duplicate is kept, and the
\* filter run again on that output returns it
C8_Witness ==
    /\ pc = "again"
    /\ arg = JList(<<JWord("tollways"), JWord("bogus"), JWord("tollways")>>)
    /\ result.list = <<JWord("tollways"), JWord("tollways")>>

----------------------------------------------------------------------------
(* The truck endpoint on truck data of every kind. *)

TruckHeights == {ABSENT, JNull, JNum(Fin(42, 1))}
TruckWidths == {ABSENT, JNum(Fin(26, 1))}
TruckLengths == {ABSENT, JNum(Fin(185, 1))}
\* absent, null, at the threshold, just above it, kilograms, a fraction
\* below the threshold, zero, a str that is no number
TruckWeights ==
    {ABSENT, JNull, JInt(1000), JInt(1001), JInt(38000), JNum(Fin(9995, 1)),
     JInt(0), JWord("x")}
TruckAxleloads == {ABSENT, JNull, JInt(10000), JInt(8), JInt(1000)}

Trucks ==
    {MkObj([height |-> h, width |-> w, length |-> l, weight |-> kg,
            axleload |-> ax]) :
        h \in TruckHeights, w \in TruckWidths, l \in TruckLengths,
        kg \in TruckWeights, ax \in TruckAxleloads}
    \cup {ABSENT, JNull}

TruckBody(truck) ==
    RouteBody(Pt(JInt(90), JInt(180)), ABSENT, Pt(JInt(-90), JInt(-180)),
              AvoidSample, truck)

TruckReqs ==
    {Request(POST, TruckBody(truck)) : truck \in Trucks}
    \cup {Request(GET, PlainRouteBody)}

NextTruck ==
    \/ RotaCaminhao(TruckReqs, RouteResps)
    \/ NextRequest

SpecTruck == InitRoute /\ [][NextTruck]_vars

----------------------------------------------------------------------------
(* Properties of the truck restrictions. *)

TruckKeys == {"height", "width", "length", "weight", "axleload"}

\* the truck data of the request, {} when the key is absent
RequestTruck == GetOr(request.body, "truck", JObj(NoObj))

\* the restrictions of the call issued, {} when none are forwarded
SentRestrictions ==
    IF Has(calls[1].payload.o["options"], "profile_params")
    THEN calls[1].payload.o["options"].o["profile_params"].o["restrictions"]
    ELSE JObj(NoObj)

\* f is the number v / 1000 when v > 1000, the number v otherwise
TonnesOf(f, v) ==
    /\ f.t = "num" /\ f.n.k = "fin"
    /\ IF v.n.m > 1000 * Pow10(v.n.e)
       THEN f.n.m * 1000 * Pow10(v.n.e) = v.n.m * Pow10(f.n.e)
       ELSE f.n.m * Pow10(v.n.e) = v.n.m * Pow10(f.n.e)

\* C7: the restrictions forwarded by rota_caminhao hold exactly the keys
\* among height, width, length, weight, axleload whose request value is
\* present and not null; height, width and length are forwarded unchanged;
\* a numeric weight or axleload v is forwarded as v/1000 when v > 1000 and
\* as v when v <= 1000.
C7_TruckRestrictions ==
    (pc = "done" /\ endpoint = "rota_caminhao" /\ calls # <<>>)
    => /\ DOMAIN SentRestrictions.o
              = {key \in TruckKeys : Get(RequestTruck, key) # JNull}
       /\ \A key \in DOMAIN SentRestrictions.o :
              IF key \in {"weight", "axleload"} /\ RequestTruck.o[key].t = "num"
              THEN TonnesOf(SentRestrictions.o[key], RequestTruck.o[key])
              ELSE SentRestrictions.o[key] = RequestTruck.o[key]

\* C7 happens: weight 38000 is forwarded as 38, axleload 1000 as 1000, the
\* null height is left out and the width is forwarded as it came
C7_Witness ==
    /\ pc = "done" /\ endpoint = "rota_caminhao" /\ calls # <<>>
    /\ RequestTruck = MkObj([height |-> JNull, width |-> JNum(Fin(26, 1)),
                             length |-> ABSENT, weight |-> JInt(38000),
                             axleload |-> JInt(1000)])
    /\ DOMAIN SentRestrictions.o = {"width", "weight", "axleload"}
    /\ FloatEq(SentRestrictions.o["weight"].n, Fin(38, 0))
    /\ FloatEq(SentRestrictions.o["axleload"].n, Fin(1000, 0))

----------------------------------------------------------------------------
(* The obstacle endpoint on Overpass answers of every kind. *)

BBox ==
    JObj([south |-> JInt(-26), west |-> JInt(-55), north |-> JInt(-25),
          east |-> JInt(-54)])

ObstacleBody(bbox, limit, vehicle_height_m) ==
    MkObj([bbox |-> bbox, limit |-> limit, vehicle_height_m |-> vehicle_height_m])

ObstacleLimits == {ABSENT, JNull, JInt(0), JInt(1), JInt(2), JInt(-1)}

VehicleHeights == {ABSENT, JNull, JInt(0), JInt(2), JStr(<<"1", ".", "2">>)}

ObstacleReqs ==
    {Request(POST, ObstacleBody(BBox, lim, vh)) :
        lim \in ObstacleLimits, vh \in VehicleHeights}
    \cup {Request(POST, ObstacleBody(ABSENT, ABSENT, ABSENT)),
          Request(GET, ObstacleBody(BBox, ABSENT, ABSENT))}

\* an OSM node with these tags
Node(id, tags) ==
    JObj([type |-> JWord("node"), id |-> JInt(id), lat |-> JInt(-25),
          lon |-> JInt(-54), tags |-> JObj(tags)])

\* an OSM way with these tags and this center
Way(id, tags, center) ==
    MkObj([type |-> JWord("way"), id |-> JInt(id), center |-> center,
           tags |-> JObj(tags)])

\* heights of 2 m, 1 m (a bridge), -1 m, an unparseable one, 2 ft on a way
\* (0.6096 m), and a way without a center
ObstacleElements ==
    {Node(1, [maxheight |-> JStr(<<"2">>)]),
     Node(2, [maxheight |-> JStr(<<"1", " ", "M">>), bridge |-> JWord("yes")]),
     Node(3, [maxheight |-> JStr(<<"-", "1">>)]),
     Node(4, [maxheight |-> JWord("x")]),
     Way(5, "maxheight:physical" :> JStr(<<"2", "ft">>),
         JObj([lat |-> JInt(-25), lon |-> JInt(-54)])),
     Way(6, [maxheight |-> JStr(<<"2">>)], ABSENT)}

ElementLists == UNION {[1..n -> ObstacleElements] : n \in 0..MaxElements}

ObstacleResps ==
    {Response("ok", 200, JObj([elements |-> JList(els)])) : els \in ElementLists}
    \cup {Response("fail", 0, NOTJSON)}

NextObstacles ==
    \/ ObstaculosAltura(ObstacleReqs, ObstacleResps)
    \/ NextRequest

SpecObstacles == InitRoute /\ [][NextObstacles]_vars

----------------------------------------------------------------------------
(* Properties of the obstacle endpoint. *)

ObstacleReplied ==
    /\ pc = "done" /\ endpoint = "obstaculos_altura"
    /\ reply.kind = "json" /\ reply.status = 200

\* the features of the reply
ReplyFeatures == reply.body.o["features"].l

\* vehicle_height_m of the request, null when not supplied
SuppliedHeight == Get(request.body, "vehicle_height_m")

\* C5: when vehicle_height_m is supplied (0 included), every feature of the
\* reply has a parsed height that is known and strictly less than it.
C5_OnlyLowerObstacles ==
    (ObstacleReplied /\ SuppliedHeight # JNull)
    => \A i \in 1..Len(ReplyFeatures) :
           /\ ReplyFeatures[i].o["maxheight_m"] # JNull
           /\ FloatLt(ReplyFeatures[i].o["maxheight_m"].n, PyFloat(SuppliedHeight))

\* C5 happens: with vehicle_height_m 0, of obstacles of 1 m, -1 m and of
\* unknown height only the one of -1 m is returned
C5_Witness ==
    /\ ObstacleReplied /\ SuppliedHeight = JInt(0)
    /\ upstream.body.o["elements"].l
           = <<Node(2, [maxheight |-> JStr(<<"1", " ", "M">>),
                        bridge |-> JWord("yes")]),
               Node(3, [maxheight |-> JStr(<<"-", "1">>)]),
               Node(4, [maxheight |-> JWord("x")])>>
    /\ Len(ReplyFeatures) = 1
    /\ ReplyFeatures[1].o["osm_id"] = JInt(3)
    /\ reply.body.o["filtered_by_height"] = JBool(TRUE)

\* the features of the upstream elements, in upstream order
UpstreamFeatures ==
    ObstacleFeatures(upstream.body.o["elements"].l, 1, <<>>).feats

\* the height-filtered feature sequence
FilteredFeatures ==
    IF SuppliedHeight = JNull THEN UpstreamFeatures
    ELSE FilterByHeight(UpstreamFeatures, 1, PyFloat(SuppliedHeight))

\* the limit of the request, an integer
RequestedLimit == request.body.o["limit"].n.m

\* C9: for every requested integer limit the features of the reply are the
\* first min(limit, k) of the k height-filtered features, in upstream order
\* (none when that minimum is not positive); so the reply never holds more
\* than limit features.
C9_LimitTruncates ==
    (ObstacleReplied /\ Get(request.body, "limit").t = "num")
    => ReplyFeatures
           = SubSeq(FilteredFeatures, 1,
                    MaxOf(0, MinOf(RequestedLimit, Len(FilteredFeatures))))

----------------------------------------------------------------------------
(* The gateway: every endpoint, with and without the key, on upstream       *)
(* answers of every kind.                                                   *)

HealthReqs == {Request(GET, JNull), Request(POST, NOTJSON)}

GatewayRouteReqs ==
    {Request(POST, PlainRouteBody),
     Request(POST, TruckBody(MkObj([height |-> JNum(Fin(42, 1)),
                                    weight |-> JInt(38000)]))),
     Request(POST, RouteBody(Pt(JInt(91), JInt(0)), ABSENT,
                             Pt(JInt(0), JInt(0)), ABSENT, ABSENT)),
     Request(POST, NOTJSON),
     Request(GET, PlainRouteBody)}

GeocodeBody(q, limit, country, focus, rect) ==
    MkObj([q |-> q, limit |-> limit, country |-> country,
           focus_lat |-> focus, focus_lng |-> focus,
           rect_north |-> rect, rect_south |-> rect,
           rect_east |-> rect, rect_west |-> rect])

\* a plain search; one with every option; no q; a q that is no str; a
\* limit, a focus and a rectangle that are no numbers; bodies that are no
\* object
GeocodeBodies ==
    {GeocodeBody(JWord("x"), ABSENT, ABSENT, ABSENT, ABSENT),
     GeocodeBody(JStr(<<" ", "x", " ">>), JStr(<<"2">>), JStr(<<>>), JInt(1), JInt(2)),
     GeocodeBody(ABSENT, ABSENT, ABSENT, ABSENT, ABSENT),
     GeocodeBody(JInt(5), ABSENT, ABSENT, ABSENT, ABSENT),
     GeocodeBody(JWord("x"), JWord("x"), ABSENT, ABSENT, ABSENT),
     GeocodeBody(JWord("x"), ABSENT, JInt(1), JWord("x"), ABSENT),
     GeocodeBody(JWord("x"), ABSENT, ABSENT, ABSENT, JNull),
     NOTJSON, JList(<<>>)}

GeocodeReqs ==
    {Request(POST, b) : b \in GeocodeBodies}
    \cup {Request(GET, GeocodeBody(JWord("x"), ABSENT, ABSENT, ABSENT, ABSENT))}

GatewayObstacleReqs ==
    {Request(POST, ObstacleBody(BBox, ABSENT, ABSENT)),
     Request(POST, ObstacleBody(BBox, JInt(1), JInt(2))),
     Request(POST, ObstacleBody(JObj([south |-> JInt(1)]), ABSENT, ABSENT)),
     Request(POST, NOTJSON),
     Request(GET, ObstacleBody(BBox, ABSENT, ABSENT))}

\* a geocoding answer: a feature with a position, one without
GeocodeJson ==
    JObj([features |-> JList(<<
        JObj([geometry |-> JObj([coordinates |-> JList(<<JInt(-54), JInt(-25)>>)]),
              properties |-> JObj([label |-> JWord("Foz")])]),
        JObj([properties |-> JObj([name |-> JWord("x")])])>>)])

\* an Overpass answer: an obstacle of 2 m and one of 1 m
OverpassJson ==
    JObj([elements |-> JList(<<
        Node(1, [maxheight |-> JStr(<<"2">>)]),
        Node(2, [maxheight |-> JStr(<<"1", " ", "M">>), bridge |-> JWord("yes")])>>)])

\* JSON bodies of other shapes: no object at the top, items that are no
\* list or hold no objects, a null geometry, a height of 400 digits of feet
OddJson ==
    {JList(<<>>), JObj(NoObj), ErrorJson,
     JObj([features |-> JInt(3), elements |-> JInt(3)]),
     JObj([features |-> JList(<<JWord("x")>>), elements |-> JList(<<JWord("x")>>)]),
     JObj([features |-> JList(<<JObj([geometry |-> JNull])>>),
           elements |-> JList(<<Node(7, [maxheight |-> JStr(<<BIG, "'", "1">>)])>>)])}

UpstreamBodies == {GeoJson, GeocodeJson, OverpassJson, NOTJSON} \cup OddJson

\* success, a client error, a status of the retry list
UpstreamStatuses == {200, 404, 503}

GatewayResps ==
    {Response("ok", st, b) : st \in UpstreamStatuses, b \in UpstreamBodies}
    \cup {Response("fail", 0, NOTJSON)}

Init ==
    /\ ORS_KEY \in {"", "key"}
    /\ Idle
    /\ arg = JNull
    /\ result = Pending

Next ==
    \/ Health(HealthReqs)
    \/ RotaCarro(GatewayRouteReqs, GatewayResps)
    \/ RotaCaminhao(GatewayRouteReqs, GatewayResps)
    \/ GeocodeSearch(GeocodeReqs, GatewayResps)
    \/ ObstaculosAltura(GatewayObstacleReqs, GatewayResps)
    \/ NextRequest

Spec == Init /\ [][Next]_vars

----------------------------------------------------------------------------
(* Properties of the gateway. *)

Orchestrators ==
    {"rota_carro", "rota_caminhao", "geocode_search", "obstaculos_altura"}

\* the endpoints that call the provider the key is for
ProviderEndpoints == {"rota_carro", "rota_caminhao", "geocode_search"}

\* C1: whatever the request and whatever the external service returns,
\* each of the four orchestrators ends by returning a JSON reply; no
\* execution ends in an uncaught exception.
C1_AlwaysJsonReply ==
    (pc = "done" /\ endpoint \in Orchestrators) => reply.kind = "json"

\* C2 as stated: with the key not configured, none of the four
\* orchestrators ever issues an outbound call.
C2_NoCallWithoutKey ==
    (pc = "done" /\ ORS_KEY = "" /\ endpoint \in Orchestrators) => calls = <<>>

\* C2 as the code has it: with the key not configured, every POST to
\* rota_carro, rota_caminhao or geocode_search is answered 500 and issues
\* no call, and no request at all reaches the provider; obstaculos_altura,
\* which checks no key, still calls Overpass.
C2_NoProviderCallWithoutKey ==
    (pc = "done" /\ ORS_KEY = "")
    => /\ \A i \in 1..Len(calls) : calls[i].service = "overpass"
       /\ calls # <<>> => endpoint = "obstaculos_altura"
       /\ (endpoint \in ProviderEndpoints /\ request.method = POST)
          => (calls = <<>> /\ reply.kind = "json" /\ reply.status = 500)

\* C2 happens: without the key a truck route that is valid is answered 500
\* and nothing is called
C2_Witness ==
    /\ pc = "done" /\ ORS_KEY = "" /\ endpoint = "rota_caminhao"
    /\ request.method = POST /\ AllPointsValid(request.body)
    /\ calls = <<>> /\ reply.status = 500

\* C4, its last clause: an upstream answer whose final status is not 2xx is
\* never turned into a 200 reply (a reply passing that status through is
\* no 200 reply).
C4_NoSuccessOnUpstreamError ==
    (/\ pc = "done" /\ calls # <<>> /\ upstream.net = "ok"
     /\ upstream.status \notin 200..299)
    => (reply.kind = "json" => reply.status # 200)

----------------------------------------------------------------------------
(* Properties of the maxheight parser. *)

\* C10, its first clause: _parse_maxheight_to_meters never raises; on every
\* input it returns a float or None.
C10_NeverRaises ==
    pc = "done" => result.k \in {"fin", "inf", "nan", "none"}

====
